---------------------------- MODULE Spec2Model ----------------------------
(***************************************************************************)
(* Model of writer_bot_ht.py: a fixed-capacity open-addressing hashtable   *)
(* (linear probing in decreasing index direction) used as a multimap, the  *)
(* Markov-chain table builder, the random walk over it and the main        *)
(* program.  Strings are sequences of character codes; a list of strings   *)
(* is a sequence of such sequences.  Python's 0-based list indices are     *)
(* kept: slot k of the table is pairs[k + 1].                              *)
(***************************************************************************)
EXTENDS Integers, Sequences, FiniteSets, TLC

(***************************************************************************)
(* Bounds of the model.                                                    *)
(***************************************************************************)
MaxTextLen == 5
MaxCap == 3
MaxN == 2
MaxWords == 2
MaxPuts == 3
ExampleCap == 11
ExampleWords == 5
LongWords == 21

(***************************************************************************)
(* Program constants and character codes.                                  *)
(***************************************************************************)
SPACE == 32
AT == 64
NONWORD == <<AT>>
LINE_WORDS == 10
HASH_MULT == 31

Whitespace == {9, 10, 11, 12, 13, SPACE}

MSG_PREFIX == "ERROR: specified prefix size is less than one"
MSG_SIZE == "ERROR: specified size of the generated text is less than one"

(***************************************************************************)
(* Sets the inputs are drawn from.                                         *)
(***************************************************************************)
\* 'a', '@' and ' '
TextChars == {97, AT, SPACE}
SeqsUpTo(S, k) == UNION {[1..m -> S] : m \in 0..k}
Texts == SeqsUpTo(TextChars, MaxTextLen)
Caps == (-1)..MaxCap
\* "the cat sat on the mat the cat ran"
W_THE == <<116, 104, 101>>
W_CAT == <<99, 97, 116>>
W_SAT == <<115, 97, 116>>
W_ON == <<111, 110>>
W_MAT == <<109, 97, 116>>
W_RAN == <<114, 97, 110>>
ExampleText ==
    W_THE \o <<SPACE>> \o W_CAT \o <<SPACE>> \o W_SAT \o <<SPACE>> \o W_ON
    \o <<SPACE>> \o W_THE \o <<SPACE>> \o W_MAT \o <<SPACE>> \o W_THE
    \o <<SPACE>> \o W_CAT \o <<SPACE>> \o W_RAN
\* "a a": the walk over it can go on for any number of words
LongText == <<97, SPACE, 97>>
\* "a", "@" and "a a" as keys, "a" and "@" as values
HTKeys == {<<97>>, NONWORD, <<97, SPACE, 97>>}
HTValues == {<<97>>, NONWORD}

(***************************************************************************)
(* Python primitives.                                                      *)
(***************************************************************************)
\* a % b for b # 0: the result has the sign of b
PyMod(a, b) == IF b > 0 THEN a % b ELSE 0 - ((0 - a) % (0 - b))

\* lst[k] is defined for -len <= k < len, IndexError otherwise
PyIndexOK(lst, k) == (0 - Len(lst)) <= k /\ k < Len(lst)

PyAt(lst, k) == IF k >= 0 THEN lst[k + 1] ELSE lst[Len(lst) + k + 1]

\* [x] * k, the empty list when k <= 0
RECURSIVE Rep(_, _)
Rep(x, k) == IF k <= 0 THEN <<>> ELSE <<x>> \o Rep(x, k - 1)

\* lst[a:b] for 0 <= a
PySlice(lst, a, b) ==
    LET hi == IF b > Len(lst) THEN Len(lst) ELSE b
    IN  IF a >= hi THEN <<>> ELSE SubSeq(lst, a + 1, hi)

\* ' '.join(ws)
RECURSIVE Join(_)
Join(ws) ==
    IF ws = <<>> THEN <<>>
    ELSE IF Len(ws) = 1 THEN ws[1]
    ELSE ws[1] \o <<SPACE>> \o Join(Tail(ws))

\* s.split(): maximal runs of non-whitespace characters, in order
RECURSIVE SplitFrom(_, _, _)
SplitFrom(s, k, cur) ==
    IF k > Len(s) THEN (IF cur = <<>> THEN <<>> ELSE <<cur>>)
    ELSE IF s[k] \in Whitespace
         THEN (IF cur = <<>> THEN <<>> ELSE <<cur>>) \o SplitFrom(s, k + 1, <<>>)
         ELSE SplitFrom(s, k + 1, Append(cur, s[k]))

Split(s) == SplitFrom(s, 1, <<>>)

\* s.strip(): leading and trailing whitespace removed
RECURSIVE LStrip(_)
LStrip(s) ==
    IF s # <<>> /\ s[1] \in Whitespace THEN LStrip(Tail(s)) ELSE s

RECURSIVE RStrip(_)
RStrip(s) ==
    IF s # <<>> /\ s[Len(s)] \in Whitespace
    THEN RStrip(SubSeq(s, 1, Len(s) - 1)) ELSE s

Strip(s) == RStrip(LStrip(s))

(***************************************************************************)
(* Hashtable: pure parts.                                                  *)
(***************************************************************************)
None == <<>>

IsNone(slot) == Len(slot) = 0

\* p = 31 * p + ord(c) over the characters, left to right.  Python integers
\* are unbounded; the accumulator is kept reduced modulo m, which leaves
\* p % size unchanged for m = |size|.
RECURSIVE PolyHash(_, _, _)
PolyHash(key, p, m) ==
    IF key = <<>> THEN p
    ELSE PolyHash(Tail(key), (HASH_MULT * p + Head(key)) % m, m)

\* _hash for size # 0 (size = 0 raises ZeroDivisionError, see put/get)
Hash(key, sz) == PyMod(PolyHash(key, 0, IF sz > 0 THEN sz ELSE 0 - sz), sz)

\* mutant: every occupied slot is taken for the slot of the key
KeyMatchesAny(slot, k) == TRUE

\* mutant: the key is compared with the first stored value
KeyMatchesFirstValue(slot, k) == slot[2][1] = k

\* self._pairs[index][0] == key
KeyMatches(slot, k) == slot[1] = k

\* mutant: probing two slots down at a time
NextProbeSkip(idx, sz) == PyMod(idx - 2, sz)

\* mutant: probing in the increasing index direction
NextProbeUp(idx, sz) == PyMod(idx + 1, sz)

\* mutant: the index is not moved
NextProbeStuck(idx, sz) == idx

\* mutant: the decrement without the wraparound
NextProbeNoWrap(idx, sz) == idx - 1

\* index = (index - 1) % self._size
NextProbe(idx, sz) == PyMod(idx - 1, sz)

\* mutant: the value takes the place of the values stored before
AppendValueReplace(slot, v) == <<slot[1], <<v>>>>

\* mutant: the value is inserted at the front of the list
AppendValueFront(slot, v) == <<slot[1], <<v>> \o slot[2]>>

\* self._pairs[index][1].append(value)
AppendValue(slot, v) == <<slot[1], Append(slot[2], v)>>

\* [key, [value]]
NewPair(k, v) == <<k, <<v>>>>

\* mutant: at least one slot is allocated
EmptyPairsAtLeastOne(sz) == Rep(None, IF sz < 1 THEN 1 ELSE sz)

\* [None] * size
EmptyPairs(sz) == Rep(None, sz)

(***************************************************************************)
(* build_table: pure parts.                                                *)
(***************************************************************************)
\* mutant: no sentinel after the last word
ExtendedWordsNoEnd(text, nn) == Rep(NONWORD, nn) \o Split(text)

\* [NONWORD] * n + source_text.split() + [NONWORD]
ExtendedWords(text, nn) == Rep(NONWORD, nn) \o Split(text) \o <<NONWORD>>

\* ' '.join(words[i:i + n])
PrefixAt(ws, k, nn) == Join(PySlice(ws, k, k + nn))

\* mutant: the last word of the window instead of the word after it
SuffixAtLast(ws, k, nn) == ws[k + nn]

\* words[i + n]
SuffixAt(ws, k, nn) == ws[k + nn + 1]

(***************************************************************************)
(* generate_text: pure parts.                                              *)
(***************************************************************************)
\* mutant: one sentinel whatever n is
StartPrefixOne(nn) == Join(Rep(NONWORD, 1))

\* ' '.join([NONWORD] * n)
StartPrefix(nn) == Join(Rep(NONWORD, nn))

\* mutant: the first word of the prefix is kept
NextPrefixGrow(pfx, sfx) == Join(Split(pfx) \o <<sfx>>)

\* mutant: the prefix stays as it is
NextPrefixKeep(pfx, sfx) == pfx

\* ' '.join(prefix.split()[1:] + [suffix])
NextPrefix(pfx, sfx) ==
    LET ws == Split(pfx)
    IN  Join(PySlice(ws, 1, Len(ws)) \o <<sfx>>)

\* mutant: the first suffix whatever was drawn
SelectSuffixFirst(suffixes, r) == PyAt(suffixes, 0)

\* suffixes[index] with the index drawn, suffixes[0] when there is one suffix
SelectSuffix(suffixes, r) == PyAt(suffixes, r)

\* mutant: one iteration too many
MoreWordsInclusive(res, nw) == Len(res) <= nw

\* while len(result) < num_words
MoreWords(res, nw) == Len(res) < nw

(***************************************************************************)
(* main: pure parts.                                                       *)
(***************************************************************************)
\* if n < 1
PrefixSizeInvalid(nn) == nn < 1

\* mutant: zero words accepted
TextSizeNegative(nw) == nw < 0

\* if num_words < 1
TextSizeInvalid(nw) == nw < 1

\* mutant: lines of one word less, still ten words apart
RECURSIVE ChunksShort(_, _)
ChunksShort(ws, k) ==
    IF k >= Len(ws) THEN <<>>
    ELSE <<Join(PySlice(ws, k, k + LINE_WORDS - 1))>>
         \o ChunksShort(ws, k + LINE_WORDS)

\* ' '.join(generated_text[i:i + 10]) for i in range(0, len, 10)
RECURSIVE Chunks(_, _)
Chunks(ws, k) ==
    IF k >= Len(ws) THEN <<>>
    ELSE <<Join(PySlice(ws, k, k + LINE_WORDS))>> \o Chunks(ws, k + LINE_WORDS)

OutLine(s) == [msg |-> "", text |-> s]
MsgLine(m) == [msg |-> m, text |-> <<>>]

RECURSIVE OutLines(_)
OutLines(ls) ==
    IF ls = <<>> THEN <<>> ELSE <<OutLine(Head(ls))>> \o OutLines(Tail(ls))

(***************************************************************************)
(* State.                                                                  *)
(***************************************************************************)
VARIABLES
    pc,           \* position of the running code
    stack,        \* return positions of the pending calls
    file_text,    \* contents of the source file
    table_size,   \* configuration: capacity of the table
    n,            \* configuration: prefix length given to build_table
    num_words,    \* configuration: number of words to generate
    gen_n,        \* prefix length given to generate_text
    source_text,  \* main: file.read().strip()
    file_opened,  \* main: the source file has been opened
    stdout,       \* lines printed so far
    exit_code,    \* -1 while running, then the exit status
    exception,    \* "" or the name of the uncaught exception
    constructed,  \* a Hashtable object exists
    size,         \* Hashtable._size
    pairs,        \* Hashtable._pairs
    words,        \* build_table: words
    i,            \* build_table: loop index (next value of i)
    key,          \* put/get/__contains__: key
    value,        \* put: value
    index,        \* put/get/__contains__: index
    got,          \* last return of get: <<>> for None, <<values>> otherwise
    found,        \* last return of __contains__
    result,       \* generate_text: result
    prefix,       \* generate_text: prefix
    term,         \* generate_text: how the loop was left
    draws,        \* the values random.randint has returned, in order
    puts          \* history: the (key, value) pairs of the completed puts

vars == <<pc, stack, file_text, table_size, n, num_words, gen_n, source_text,
          file_opened, stdout, exit_code, exception, constructed, size, pairs,
          words, i, key, value, index, got, found, result, prefix, term, draws,
          puts>>

cfgVars == <<file_text, table_size, n, num_words, gen_n>>
mainVars == <<source_text, file_opened, stdout, exit_code>>
tableVars == <<constructed, size, pairs, puts>>
buildVars == <<words, i>>
probeVars == <<key, value, index>>
genVars == <<result, prefix, term, draws>>

InitLocals ==
    /\ stack = <<>>
    /\ file_opened = FALSE
    /\ stdout = <<>>
    /\ exit_code = -1
    /\ exception = ""
    /\ constructed = FALSE
    /\ size = 0
    /\ pairs = <<>>
    /\ words = <<>>
    /\ i = 0
    /\ key = <<>>
    /\ value = <<>>
    /\ index = 0
    /\ got = <<>>
    /\ found = FALSE
    /\ result = <<>>
    /\ prefix = <<>>
    /\ term = "none"
    /\ draws = <<>>
    /\ puts = <<>>

(***************************************************************************)
(* Calls, returns and uncaught exceptions.                                 *)
(***************************************************************************)
Return ==
    /\ pc' = Head(stack)
    /\ stack' = Tail(stack)

Call(target, back) ==
    /\ pc' = target
    /\ stack' = <<back>> \o stack

Raise(name) ==
    /\ pc' = "crashed"
    /\ exception' = name
    /\ exit_code' = 1
    /\ stack' = <<>>

(***************************************************************************)
(* Hashtable.__init__                                                      *)
(***************************************************************************)
HashtableInit(sz) ==
    /\ constructed' = TRUE
    /\ size' = sz
    /\ pairs' = EmptyPairs(sz)

(***************************************************************************)
(* Hashtable.put                                                           *)
(***************************************************************************)
\* index = self._hash(key)
PutHash ==
    /\ pc = "put"
    /\ IF size = 0
       THEN /\ Raise("ZeroDivisionError")
            /\ UNCHANGED index
       ELSE /\ index' = Hash(key, size)
            /\ pc' = "put_loop"
            /\ UNCHANGED <<stack, exception, exit_code>>
    /\ UNCHANGED <<cfgVars, source_text, file_opened, stdout, tableVars,
                   buildVars, key, value, got, found, genVars>>

\* self._pairs[index] on an index outside the list
PutIndexError ==
    /\ pc = "put_loop"
    /\ ~PyIndexOK(pairs, index)
    /\ Raise("IndexError")
    /\ UNCHANGED <<cfgVars, source_text, file_opened, stdout, tableVars,
                   buildVars, probeVars, got, found, genVars>>

\* occupied slot holding the key: append to its value list and return
PutAppend ==
    /\ pc = "put_loop"
    /\ PyIndexOK(pairs, index)
    /\ ~IsNone(PyAt(pairs, index))
    /\ KeyMatches(PyAt(pairs, index), key)
    /\ pairs' = [pairs EXCEPT ![index + 1] = AppendValue(pairs[index + 1], value)]
    /\ puts' = Append(puts, <<key, value>>)
    /\ Return
    /\ UNCHANGED <<cfgVars, mainVars, exception, constructed, size,
                   buildVars, probeVars, got, found, genVars>>

\* occupied slot holding another key: probe the previous slot
PutProbe ==
    /\ pc = "put_loop"
    /\ PyIndexOK(pairs, index)
    /\ ~IsNone(PyAt(pairs, index))
    /\ ~KeyMatches(PyAt(pairs, index), key)
    /\ index' = NextProbe(index, size)
    /\ UNCHANGED <<pc, stack, cfgVars, mainVars, exception, tableVars,
                   buildVars, key, value, got, found, genVars>>

\* empty slot: store the new pair
PutStore ==
    /\ pc = "put_loop"
    /\ PyIndexOK(pairs, index)
    /\ IsNone(PyAt(pairs, index))
    /\ pairs' = [pairs EXCEPT ![index + 1] = NewPair(key, value)]
    /\ puts' = Append(puts, <<key, value>>)
    /\ Return
    /\ UNCHANGED <<cfgVars, mainVars, exception, constructed, size,
                   buildVars, probeVars, got, found, genVars>>

Put == PutHash \/ PutIndexError \/ PutAppend \/ PutProbe \/ PutStore

(***************************************************************************)
(* Hashtable.get                                                           *)
(***************************************************************************)
\* index = self._hash(key)
GetHash ==
    /\ pc = "get"
    /\ IF size = 0
       THEN /\ Raise("ZeroDivisionError")
            /\ UNCHANGED index
       ELSE /\ index' = Hash(key, size)
            /\ pc' = "get_loop"
            /\ UNCHANGED <<stack, exception, exit_code>>
    /\ UNCHANGED <<cfgVars, source_text, file_opened, stdout, tableVars,
                   buildVars, key, value, got, found, genVars>>

GetIndexError ==
    /\ pc = "get_loop"
    /\ ~PyIndexOK(pairs, index)
    /\ Raise("IndexError")
    /\ UNCHANGED <<cfgVars, source_text, file_opened, stdout, tableVars,
                   buildVars, probeVars, got, found, genVars>>

\* mutant: the lookup takes the pair out of its slot
GetFoundTakes ==
    /\ pc = "get_loop"
    /\ PyIndexOK(pairs, index)
    /\ ~IsNone(PyAt(pairs, index))
    /\ KeyMatches(PyAt(pairs, index), key)
    /\ got' = <<PyAt(pairs, index)[2]>>
    /\ pairs' = [pairs EXCEPT ![index + 1] = None]
    /\ Return
    /\ UNCHANGED <<cfgVars, mainVars, exception, constructed, size, puts,
                   buildVars, probeVars, found, genVars>>

\* return self._pairs[index][1]
GetFound ==
    /\ pc = "get_loop"
    /\ PyIndexOK(pairs, index)
    /\ ~IsNone(PyAt(pairs, index))
    /\ KeyMatches(PyAt(pairs, index), key)
    /\ got' = <<PyAt(pairs, index)[2]>>
    /\ Return
    /\ UNCHANGED <<cfgVars, mainVars, exception, tableVars, buildVars,
                   probeVars, found, genVars>>

GetProbe ==
    /\ pc = "get_loop"
    /\ PyIndexOK(pairs, index)
    /\ ~IsNone(PyAt(pairs, index))
    /\ ~KeyMatches(PyAt(pairs, index), key)
    /\ index' = NextProbe(index, size)
    /\ UNCHANGED <<pc, stack, cfgVars, mainVars, exception, tableVars,
                   buildVars, key, value, got, found, genVars>>

\* return None
GetMiss ==
    /\ pc = "get_loop"
    /\ PyIndexOK(pairs, index)
    /\ IsNone(PyAt(pairs, index))
    /\ got' = None
    /\ Return
    /\ UNCHANGED <<cfgVars, mainVars, exception, tableVars, buildVars,
                   probeVars, found, genVars>>

Get == GetHash \/ GetIndexError \/ GetFound \/ GetProbe \/ GetMiss

(***************************************************************************)
(* Hashtable.__contains__                                                  *)
(***************************************************************************)
ContainsHash ==
    /\ pc = "contains"
    /\ IF size = 0
       THEN /\ Raise("ZeroDivisionError")
            /\ UNCHANGED index
       ELSE /\ index' = Hash(key, size)
            /\ pc' = "contains_loop"
            /\ UNCHANGED <<stack, exception, exit_code>>
    /\ UNCHANGED <<cfgVars, source_text, file_opened, stdout, tableVars,
                   buildVars, key, value, got, found, genVars>>

ContainsIndexError ==
    /\ pc = "contains_loop"
    /\ ~PyIndexOK(pairs, index)
    /\ Raise("IndexError")
    /\ UNCHANGED <<cfgVars, source_text, file_opened, stdout, tableVars,
                   buildVars, probeVars, got, found, genVars>>

ContainsTrue ==
    /\ pc = "contains_loop"
    /\ PyIndexOK(pairs, index)
    /\ ~IsNone(PyAt(pairs, index))
    /\ KeyMatches(PyAt(pairs, index), key)
    /\ found' = TRUE
    /\ Return
    /\ UNCHANGED <<cfgVars, mainVars, exception, tableVars, buildVars,
                   probeVars, got, genVars>>

ContainsProbe ==
    /\ pc = "contains_loop"
    /\ PyIndexOK(pairs, index)
    /\ ~IsNone(PyAt(pairs, index))
    /\ ~KeyMatches(PyAt(pairs, index), key)
    /\ index' = NextProbe(index, size)
    /\ UNCHANGED <<pc, stack, cfgVars, mainVars, exception, tableVars,
                   buildVars, key, value, got, found, genVars>>

ContainsFalse ==
    /\ pc = "contains_loop"
    /\ PyIndexOK(pairs, index)
    /\ IsNone(PyAt(pairs, index))
    /\ found' = FALSE
    /\ Return
    /\ UNCHANGED <<cfgVars, mainVars, exception, tableVars, buildVars,
                   probeVars, got, genVars>>

Contains ==
    ContainsHash \/ ContainsIndexError \/ ContainsTrue \/ ContainsProbe
    \/ ContainsFalse

(***************************************************************************)
(* build_table                                                             *)
(***************************************************************************)
\* table = Hashtable(table_size); words = ...
BuildInit ==
    /\ pc = "build_table"
    /\ HashtableInit(table_size)
    /\ words' = ExtendedWords(source_text, n)
    /\ i' = 0
    /\ pc' = "build_loop"
    /\ UNCHANGED <<stack, cfgVars, mainVars, exception, puts, probeVars,
                   got, found, genVars>>

\* for i in range(len(words) - n): table.put(prefix, suffix)
BuildPut ==
    /\ pc = "build_loop"
    /\ i < Len(words) - n
    /\ key' = PrefixAt(words, i, n)
    /\ value' = SuffixAt(words, i, n)
    /\ i' = i + 1
    /\ Call("put", "build_loop")
    /\ UNCHANGED <<cfgVars, mainVars, exception, tableVars, words, index,
                   got, found, genVars>>

\* return table
BuildReturn ==
    /\ pc = "build_loop"
    /\ ~(i < Len(words) - n)
    /\ Return
    /\ UNCHANGED <<cfgVars, mainVars, exception, tableVars, buildVars,
                   probeVars, got, found, genVars>>

BuildTable == BuildInit \/ BuildPut \/ BuildReturn

(***************************************************************************)
(* generate_text                                                           *)
(***************************************************************************)
\* result = []; prefix = ' '.join([NONWORD] * n)
GenInit ==
    /\ pc = "generate_text"
    /\ result' = <<>>
    /\ prefix' = StartPrefix(gen_n)
    /\ term' = "walking"
    /\ pc' = "gen_loop"
    /\ UNCHANGED draws
    /\ UNCHANGED <<stack, cfgVars, mainVars, exception, tableVars, buildVars,
                   probeVars, got, found>>

\* loop test true: suffixes = table.get(prefix)
GenLookup ==
    /\ pc = "gen_loop"
    /\ MoreWords(result, num_words)
    /\ key' = prefix
    /\ Call("get", "gen_select")
    /\ UNCHANGED <<cfgVars, mainVars, exception, tableVars, buildVars,
                   value, index, got, found, genVars>>

\* loop test false: return result
GenFull ==
    /\ pc = "gen_loop"
    /\ ~MoreWords(result, num_words)
    /\ term' = "capped"
    /\ Return
    /\ UNCHANGED <<cfgVars, mainVars, exception, tableVars, buildVars,
                   probeVars, got, found, result, prefix, draws>>

\* if suffixes is None: break
GenMiss ==
    /\ pc = "gen_select"
    /\ got = None
    /\ term' = "no_match"
    /\ Return
    /\ UNCHANGED <<cfgVars, mainVars, exception, tableVars, buildVars,
                   probeVars, got, found, result, prefix, draws>>

\* the suffix is chosen with random.randint when there are several;
\* NONWORD ends the walk, any other suffix is appended and rotates the prefix
GenStep ==
    /\ pc = "gen_select"
    /\ got # None
    /\ LET suffixes == got[1]
       IN  \E r \in 0..(Len(suffixes) - 1) :
             /\ (Len(suffixes) > 1 \/ r = 0)
             /\ draws' = IF Len(suffixes) > 1 THEN Append(draws, r) ELSE draws
             /\ LET suffix == SelectSuffix(suffixes, r)
                IN  IF suffix = NONWORD
                    THEN /\ term' = "sentinel"
                         /\ Return
                         /\ UNCHANGED <<result, prefix>>
                    ELSE /\ result' = Append(result, suffix)
                         /\ prefix' = NextPrefix(prefix, suffix)
                         /\ pc' = "gen_loop"
                         /\ UNCHANGED <<stack, term>>
    /\ UNCHANGED <<cfgVars, mainVars, exception, tableVars, buildVars,
                   probeVars, got, found>>

GenerateText == GenInit \/ GenLookup \/ GenFull \/ GenMiss \/ GenStep

(***************************************************************************)
(* main                                                                    *)
(***************************************************************************)
\* n < 1: message and sys.exit(0)
MainPrefixError ==
    /\ pc = "main"
    /\ PrefixSizeInvalid(n)
    /\ stdout' = Append(stdout, MsgLine(MSG_PREFIX))
    /\ exit_code' = 0
    /\ pc' = "exited"
    /\ UNCHANGED <<stack, cfgVars, source_text, file_opened, exception,
                   tableVars, buildVars, probeVars, got, found, genVars>>

\* num_words < 1: message and sys.exit(0)
MainSizeError ==
    /\ pc = "main"
    /\ ~PrefixSizeInvalid(n)
    /\ TextSizeInvalid(num_words)
    /\ stdout' = Append(stdout, MsgLine(MSG_SIZE))
    /\ exit_code' = 0
    /\ pc' = "exited"
    /\ UNCHANGED <<stack, cfgVars, source_text, file_opened, exception,
                   tableVars, buildVars, probeVars, got, found, genVars>>

\* source_text = file.read().strip(); table = build_table(...)
MainBuild ==
    /\ pc = "main"
    /\ ~PrefixSizeInvalid(n)
    /\ ~TextSizeInvalid(num_words)
    /\ file_opened' = TRUE
    /\ source_text' = Strip(file_text)
    /\ Call("build_table", "main_generate")
    /\ UNCHANGED <<cfgVars, stdout, exit_code, exception, tableVars,
                   buildVars, probeVars, got, found, genVars>>

\* generated_text = generate_text(table, n, num_words)
MainGenerate ==
    /\ pc = "main_generate"
    /\ gen_n' = n
    /\ Call("generate_text", "main_print")
    /\ UNCHANGED <<file_text, table_size, n, num_words, mainVars, exception,
                   tableVars, buildVars, probeVars, got, found, genVars>>

\* the lines of up to 10 words, then the normal end of the program
MainPrint ==
    /\ pc = "main_print"
    /\ stdout' = stdout \o OutLines(Chunks(result, 0))
    /\ exit_code' = 0
    /\ pc' = "done"
    /\ UNCHANGED <<stack, cfgVars, source_text, file_opened, exception,
                   tableVars, buildVars, probeVars, got, found, genVars>>

Main == MainPrefixError \/ MainSizeError \/ MainBuild \/ MainGenerate \/ MainPrint

\* the texts whose words are separated by single spaces
WordTexts == {t \in Texts : Join(Split(t)) = t}

(***************************************************************************)
(* Direct use of the two functions: build_table(source_text, n,            *)
(* table_size), then generate_text(table, gen_n, num_words) on the table   *)
(* it returned.                                                            *)
(***************************************************************************)
LibBuild ==
    /\ pc = "lib"
    /\ Call("build_table", "lib_generate")
    /\ UNCHANGED <<cfgVars, mainVars, exception, tableVars, buildVars,
                   probeVars, got, found, genVars>>

LibGenerate ==
    /\ pc = "lib_generate"
    /\ Call("generate_text", "lib_done")
    /\ UNCHANGED <<cfgVars, mainVars, exception, tableVars, buildVars,
                   probeVars, got, found, genVars>>

(***************************************************************************)
(* Direct use of the class: Hashtable(table_size), then any sequence of    *)
(* put, get and "in" calls.                                                *)
(***************************************************************************)
HTNew ==
    /\ pc = "ht"
    /\ HashtableInit(table_size)
    /\ pc' = "ht_idle"
    /\ UNCHANGED <<stack, cfgVars, mainVars, exception, puts, buildVars,
                   probeVars, got, found, genVars>>

HTPut ==
    /\ pc = "ht_idle"
    /\ Len(puts) < MaxPuts
    /\ \E k \in HTKeys, v \in HTValues :
         /\ key' = k
         /\ value' = v
    /\ Call("put", "ht_idle")
    /\ UNCHANGED <<cfgVars, mainVars, exception, tableVars, buildVars,
                   index, got, found, genVars>>

HTGet ==
    /\ pc = "ht_idle"
    /\ \E k \in HTKeys : key' = k
    /\ Call("get", "ht_idle")
    /\ UNCHANGED <<cfgVars, mainVars, exception, tableVars, buildVars,
                   value, index, got, found, genVars>>

HTContains ==
    /\ pc = "ht_idle"
    /\ \E k \in HTKeys : key' = k
    /\ Call("contains", "ht_idle")
    /\ UNCHANGED <<cfgVars, mainVars, exception, tableVars, buildVars,
                   value, index, got, found, genVars>>

(***************************************************************************)
(* Initial states: the program started on a configuration and a source    *)
(* file, the two functions called directly, the class used directly.       *)
(***************************************************************************)
InitMain ==
    /\ pc = "main"
    /\ \/ /\ file_text \in Texts
          /\ table_size \in Caps
          /\ n \in (-1)..MaxN
          /\ num_words \in (-1)..MaxWords
       \/ /\ file_text = LongText
          /\ table_size = MaxCap
          /\ n = 1
          /\ num_words = LongWords
    /\ gen_n = 0
    /\ source_text = <<>>

InitLib ==
    /\ pc = "lib"
    /\ file_text = <<>>
    /\ \/ /\ source_text \in WordTexts
          /\ table_size \in Caps
          /\ n \in 1..MaxN
          /\ gen_n \in 1..MaxN
          /\ num_words \in 0..MaxWords
       \/ /\ source_text = ExampleText
          /\ table_size = ExampleCap
          /\ n = 1
          /\ gen_n = 1
          /\ num_words = ExampleWords

InitHT ==
    /\ pc = "ht"
    /\ file_text = <<>>
    /\ source_text = <<>>
    /\ table_size \in Caps
    /\ n = 0
    /\ gen_n = 0
    /\ num_words = 0

Init ==
    /\ InitMain \/ InitLib \/ InitHT
    /\ InitLocals

Next ==
    \/ MainPrefixError \/ MainSizeError \/ MainBuild \/ MainGenerate
    \/ MainPrint
    \/ LibBuild \/ LibGenerate
    \/ HTNew \/ HTPut \/ HTGet \/ HTContains
    \/ BuildInit \/ BuildPut \/ BuildReturn
    \/ PutHash \/ PutIndexError \/ PutAppend \/ PutProbe \/ PutStore
    \/ GetHash \/ GetIndexError \/ GetFound \/ GetProbe \/ GetMiss
    \/ ContainsHash \/ ContainsIndexError \/ ContainsTrue \/ ContainsProbe
    \/ ContainsFalse
    \/ GenInit \/ GenLookup \/ GenFull \/ GenMiss \/ GenStep

Spec == Init /\ [][Next]_vars

\* the code runs sequentially: whenever a step is possible, one is taken
FairSpec == Spec /\ WF_vars(Next)

\* the class used directly, on its own
NextHT ==
    \/ HTNew \/ HTPut \/ HTGet \/ HTContains
    \/ PutHash \/ PutIndexError \/ PutAppend \/ PutProbe \/ PutStore
    \/ GetHash \/ GetIndexError \/ GetFound \/ GetProbe \/ GetMiss
    \/ ContainsHash \/ ContainsIndexError \/ ContainsTrue \/ ContainsProbe
    \/ ContainsFalse

InitClass ==
    /\ InitHT
    /\ InitLocals

FairHT == InitClass /\ [][NextHT]_vars /\ WF_vars(NextHT)

\* build_table called on its own
InitBuild ==
    /\ pc = "lib"
    /\ file_text = <<>>
    /\ source_text \in WordTexts
    /\ table_size \in Caps
    /\ n \in 1..MaxN
    /\ gen_n = n
    /\ num_words = 0
    /\ InitLocals

NextBuild ==
    \/ LibBuild
    \/ BuildInit \/ BuildPut \/ BuildReturn
    \/ PutHash \/ PutIndexError \/ PutAppend \/ PutProbe \/ PutStore

FairBuild == InitBuild /\ [][NextBuild]_vars /\ WF_vars(NextBuild)

(***************************************************************************)
(* Vocabulary of the properties.                                           *)
(***************************************************************************)
Occupied == {j \in 1..Len(pairs) : Len(pairs[j]) # 0}

KeysIn == {pairs[j][1] : j \in Occupied}

HasEmptySlot == \E j \in 1..Len(pairs) : Len(pairs[j]) = 0

KeysPut == {puts[j][1] : j \in 1..Len(puts)}

\* the values put under k, in the order of the puts
RECURSIVE ValuesPutFrom(_, _)
ValuesPutFrom(k, j) ==
    IF j > Len(puts) THEN <<>>
    ELSE (IF puts[j][1] = k THEN <<puts[j][2]>> ELSE <<>>)
         \o ValuesPutFrom(k, j + 1)

ValuesPut(k) == ValuesPutFrom(k, 1)

PutReturns == pc = "put_loop" /\ pc' \notin {"put_loop", "crashed"}

GetReturns == pc = "get_loop" /\ pc' \notin {"get_loop", "crashed"}

\* offset of the first empty slot in the sequence s, s - 1, s - 2, ... (mod size)
FirstEmptyOffset(s) ==
    CHOOSE d \in 0..(size - 1) :
        /\ Len(pairs[((s - d) % size) + 1]) = 0
        /\ \A e \in 0..(d - 1) : Len(pairs[((s - e) % size) + 1]) # 0

(***************************************************************************)
(* C1: while fewer distinct keys than slots have been put, a get of a key  *)
(* that was put returns exactly the values put under that key, in the      *)
(* order of the puts, duplicates kept, and nothing put under another key.  *)
(***************************************************************************)
C1_GetReturnsValuesPut ==
    [][(/\ GetReturns
        /\ size >= 1
        /\ Cardinality(KeysPut) < size
        /\ key \in KeysPut)
       => got' = <<ValuesPut(key)>>]_vars

\* a get has returned two equal values of a key while another key is stored
C1_Witness ==
    /\ pc = "ht_idle"
    /\ Cardinality(KeysPut) < size
    /\ Cardinality(KeysPut) >= 2
    /\ key \in KeysPut
    /\ got = <<ValuesPut(key)>>
    /\ Len(got[1]) >= 2
    /\ got[1][1] = got[1][2]

(***************************************************************************)
(* C2: no two occupied slots of the table carry the same key.              *)
(***************************************************************************)
C2_OneSlotPerKey ==
    \A j1 \in Occupied, j2 \in Occupied :
        pairs[j1][1] = pairs[j2][1] => j1 = j2

\* two keys are stored and one of them has been put again
C2_Witness ==
    /\ Cardinality(Occupied) >= 2
    /\ \E j \in Occupied : Len(pairs[j][2]) >= 2

(***************************************************************************)
(* C3: a put of a key not in the table stores it in the first empty slot   *)
(* of the sequence hash, hash - 1, hash - 2, ... (mod size), and a get of  *)
(* a stored key returns the values of the slot holding that key.           *)
(***************************************************************************)
C3_ProbeDownward ==
    [][/\ (PutReturns /\ size >= 1 /\ key \notin KeysIn)
          => LET s == Hash(key, size)
                 at == ((s - FirstEmptyOffset(s)) % size) + 1
             IN  pairs' = [pairs EXCEPT ![at] = <<key, <<value>>>>]
       /\ (GetReturns /\ key \in KeysIn)
          => \E j \in Occupied :
                /\ pairs[j][1] = key
                /\ got' = <<pairs[j][2]>>]_vars

\* a get has returned the values of a key that was displaced, with wraparound,
\* from its occupied hash slot 0 to the last slot
C3_Witness ==
    /\ pc = "ht_idle"
    /\ size >= 2
    /\ Hash(key, size) = 0
    /\ Len(pairs[1]) # 0
    /\ pairs[1][1] # key
    /\ Len(pairs[size]) # 0
    /\ pairs[size][1] = key
    /\ got = <<pairs[size][2]>>

(***************************************************************************)
(* C4: when build_table returns, the keys of the table are exactly the     *)
(* space-joined windows of n tokens starting at positions 0 .. (number of  *)
(* source words) of the extended sequence, each key holds the tokens that  *)
(* follow its occurrences, in order of occurrence, and the table holds     *)
(* (number of source words) + 1 values in all; in the example text the key *)
(* "the" holds <<"cat", "mat", "cat">>.                                    *)
(***************************************************************************)
BuildReturned == pc \in {"main_generate", "lib_generate"}

ExtSeq == Rep(NONWORD, n) \o Split(source_text) \o <<NONWORD>>

WindowAt(k) == Join(SubSeq(ExtSeq, k + 1, k + n))

RECURSIVE FollowersFrom(_, _)
FollowersFrom(k, p) ==
    IF p > Len(Split(source_text)) THEN <<>>
    ELSE (IF WindowAt(p) = k THEN <<ExtSeq[p + n + 1]>> ELSE <<>>)
         \o FollowersFrom(k, p + 1)

RECURSIVE SumOver(_, _)
SumOver(f, S) ==
    IF S = {} THEN 0
    ELSE LET x == CHOOSE y \in S : TRUE IN f[x] + SumOver(f, S \ {x})

StoredValues == SumOver([j \in Occupied |-> Len(pairs[j][2])], Occupied)

C4_BuildStoresWindows ==
    BuildReturned =>
        /\ KeysIn = {WindowAt(p) : p \in 0..Len(Split(source_text))}
        /\ \A j \in Occupied : pairs[j][2] = FollowersFrom(pairs[j][1], 0)
        /\ StoredValues = Len(Split(source_text)) + 1
        /\ (source_text = ExampleText /\ n = 1)
              => \E j \in Occupied :
                    /\ pairs[j][1] = W_THE
                    /\ pairs[j][2] = <<W_CAT, W_MAT, W_CAT>>

\* build_table has returned the table of the example text
C4_Witness ==
    /\ BuildReturned
    /\ source_text = ExampleText
    /\ n = 1
    /\ Cardinality(Occupied) = 7

(***************************************************************************)
(* C5: generate_text returns at most num_words words, and fewer than       *)
(* num_words exactly when the walk selected the sentinel or looked up a    *)
(* prefix that is not in the table.                                        *)
(***************************************************************************)
GenerateReturned == pc \in {"main_print", "lib_done"}

C5_WalkLength ==
    GenerateReturned =>
        /\ Len(result) <= num_words
        /\ (Len(result) < num_words) <=> (term \in {"sentinel", "no_match"})

\* the walk was cut short by the sentinel after it had produced a word
C5_Witness ==
    /\ GenerateReturned
    /\ term = "sentinel"
    /\ 0 < Len(result)
    /\ Len(result) < num_words

\* the walk was cut short by a prefix that is not in the table
C5_WitnessNoMatch ==
    /\ GenerateReturned
    /\ term = "no_match"
    /\ Len(result) < num_words

(***************************************************************************)
(* C6: generate_text, called with any prefix length >= 1 on a table that   *)
(* build_table returned, terminates; in particular a lookup of the walk,   *)
(* which changes nothing, never comes back to the slot it started from.    *)
(***************************************************************************)
InWalkLookup == pc = "get_loop" /\ stack # <<>> /\ Head(stack) = "gen_select"

C6_GenerateTerminates ==
    /\ (pc = "generate_text" /\ gen_n >= 1) ~> GenerateReturned
    /\ [][(InWalkLookup /\ pc' = "get_loop")
          => index' # Hash(key, size)]_vars

(***************************************************************************)
(* C7: a put on a table with at least one empty slot terminates without    *)
(* error, for a new key and for a key already present: no step of it       *)
(* raises, every probe step brings the index closer (in the probe          *)
(* direction) to a slot that is empty or holds the key, and the put        *)
(* returns.                                                                *)
(***************************************************************************)
InPut == pc \in {"put", "put_loop"}

\* probe steps from idx down to the first slot that is empty or holds key
PutDistance(idx) ==
    CHOOSE d \in 0..(size - 1) :
        LET slot(e) == pairs[((idx - e) % size) + 1]
        IN  /\ (Len(slot(d)) = 0 \/ slot(d)[1] = key)
            /\ \A e \in 0..(d - 1) : Len(slot(e)) # 0 /\ slot(e)[1] # key

C7_PutStepsTowardsEnd ==
    [][(InPut /\ size >= 1 /\ HasEmptySlot)
       => /\ pc' # "crashed"
          /\ pc' \in {"put", "put_loop"}
                => /\ pc' = "put_loop"
                   /\ pc = "put_loop" => PutDistance(index') < PutDistance(index)]_vars

C7_PutTerminates ==
    /\ C7_PutStepsTowardsEnd
    /\ (InPut /\ size >= 1 /\ HasEmptySlot) ~> (pc \notin {"put", "put_loop", "crashed"})

\* a put of a key that is present has probed past another key's slot to its own
C7_Witness ==
    /\ pc = "put_loop"
    /\ HasEmptySlot
    /\ key \in KeysIn
    /\ index # Hash(key, size)
    /\ Len(pairs[index + 1]) # 0
    /\ pairs[index + 1][1] = key

\* a put of a new key has probed past an occupied slot
C7_WitnessNewKey ==
    /\ pc = "put_loop"
    /\ HasEmptySlot
    /\ key \notin KeysIn
    /\ index # Hash(key, size)

(***************************************************************************)
(* C8: once every slot is occupied by a distinct key, a put of a key that  *)
(* is not in the table never returns: every step of it is a probe to the   *)
(* previous slot (mod size) that raises nothing and changes no slot.       *)
(***************************************************************************)
TableFull == size >= 1 /\ ~HasEmptySlot /\ Cardinality(KeysIn) = size

C8_FullTablePutProbesForever ==
    [][(pc = "put_loop" /\ TableFull /\ key \notin KeysIn)
       => /\ pc' = "put_loop"
          /\ index' = (index - 1) % size
          /\ pairs' = pairs
          /\ key' = key
          /\ exception' = ""
          /\ exit_code' = exit_code]_vars

\* a put of a new key on a full table of two slots is back at its first slot
\* after probing both
C8_Witness ==
    /\ pc = "put_loop"
    /\ TableFull
    /\ size >= 2
    /\ key \notin KeysIn
    /\ stack = <<"ht_idle">>
    /\ index = (Hash(key, size) - 1) % size

(***************************************************************************)
(* C9 as stated: no table with zero or a negative number of slots is ever  *)
(* constructed.                                                            *)
(***************************************************************************)
C9_NoTableWithoutSlots == constructed => size >= 1

(***************************************************************************)
(* C9 amended: construction with a size <= 0 does not fail, it gives a     *)
(* table without slots; every put, get or "in" on that table raises        *)
(* (ZeroDivisionError in the hash for size 0, IndexError at the first slot *)
(* access for a negative size), so none returns and nothing is stored.     *)
(***************************************************************************)
InTableCall ==
    pc \in {"put", "get", "contains", "put_loop", "get_loop", "contains_loop"}

C9_NoSlotsFailsAtFirstUse ==
    [][/\ (~constructed /\ constructed' /\ table_size <= 0)
          => /\ pairs' = <<>>
             /\ size' = table_size
             /\ exception' = ""
             /\ pc' # "crashed"
       /\ (constructed /\ size <= 0)
          => pairs' = <<>> /\ puts' = <<>>
       /\ (constructed /\ size = 0 /\ InTableCall)
          => pc' = "crashed" /\ exception' = "ZeroDivisionError"
       /\ (constructed /\ size < 0 /\ pc \in {"put", "get", "contains"})
          => pc' \in {"put_loop", "get_loop", "contains_loop"}
       /\ (constructed /\ size < 0
           /\ pc \in {"put_loop", "get_loop", "contains_loop"})
          => pc' = "crashed" /\ exception' = "IndexError"]_vars

\* a table of size 0 was constructed and its first use raised
C9_Witness ==
    /\ constructed
    /\ size = 0
    /\ pairs = <<>>
    /\ pc = "crashed"
    /\ exception = "ZeroDivisionError"

(***************************************************************************)
(* C10: with n < 1, or with n >= 1 and num_words < 1, main prints the      *)
(* matching message and exits with code 0 without having opened the source *)
(* file, built a table or printed generated text.                          *)
(***************************************************************************)
C10_ConfigErrorsStopEarly ==
    /\ pc = "exited"
          => /\ n < 1 \/ num_words < 1
             /\ stdout = <<[msg |-> IF n < 1 THEN MSG_PREFIX ELSE MSG_SIZE,
                            text |-> <<>>]>>
             /\ exit_code = 0
             /\ ~file_opened
             /\ ~constructed
             /\ puts = <<>>
             /\ result = <<>>
    /\ file_opened => n >= 1 /\ num_words >= 1
    /\ (pc \in {"done", "main_generate", "main_print"}) => file_opened

\* main has stopped on n = 1, num_words = 0
C10_Witness ==
    /\ pc = "exited"
    /\ n = 1
    /\ num_words = 0
    /\ stdout = <<[msg |-> MSG_SIZE, text |-> <<>>]>>

(***************************************************************************)
(* C11: the words generate_text returns, and the prefix it holds at the     *)
(* start of every iteration, are a function of the source text, the two    *)
(* prefix lengths, num_words and the values drawn from the random stream:  *)
(* they equal the outcome of a reference walk over the token sequence of   *)
(* the text that never looks at the table, consumes the same draws in the  *)
(* same order and leaves none over.  Two runs on the same inputs with the  *)
(* same random stream therefore agree step by step.                        *)
(***************************************************************************)
\* the last k tokens of ws
LastTokens(ws, k) == SubSeq(ws, Len(ws) - k + 1, Len(ws))

\* the prefix that belongs to the words res produced so far
RefPrefix(res) == Join(LastTokens(Rep(NONWORD, gen_n) \o res, gen_n))

RefOutcome(res, ds) == [words |-> res, prefix |-> RefPrefix(res), rest |-> ds]

\* the walk over the text from the words res, with the draws ds still to be
\* consumed, until limit words are there; a missing draw leaves <<-1>> behind
RECURSIVE RefWalk(_, _, _)
RefWalk(res, ds, limit) ==
    LET fs == FollowersFrom(RefPrefix(res), 0)
        drawn == Len(fs) > 1
    IN  IF Len(res) >= limit \/ fs = <<>> THEN RefOutcome(res, ds)
        ELSE IF drawn /\ (ds = <<>> \/ Head(ds) \notin 0..(Len(fs) - 1))
             THEN RefOutcome(res, <<-1>>)
        ELSE LET pick == IF drawn THEN fs[Head(ds) + 1] ELSE fs[1]
                 left == IF drawn THEN Tail(ds) ELSE ds
             IN  IF pick = NONWORD THEN RefOutcome(res, left)
                 ELSE RefWalk(Append(res, pick), left, limit)

C11_OutputIsFunctionOfInputs ==
    /\ pc = "gen_loop"
          => RefWalk(<<>>, draws, Len(result)) = RefOutcome(result, <<>>)
                /\ prefix = RefPrefix(result)
    /\ GenerateReturned
          => RefWalk(<<>>, draws, num_words) = RefOutcome(result, <<>>)
                /\ prefix = RefPrefix(result)

\* a walk that drew different values from the random stream has returned
C11_Witness ==
    /\ GenerateReturned
    /\ Len(draws) >= 2
    /\ draws[1] # draws[Len(draws)]
    /\ Len(result) >= 2

(***************************************************************************)
(* C12, as stated: for a source text of a single word w and n = 1,         *)
(* build_table returns a table with exactly the two keys "@", holding      *)
(* <<w>>, and w, holding <<"@">>, and generate_text with n = 1 and         *)
(* num_words >= 1 returns <<w>>.                                           *)
(***************************************************************************)
SingleWord == n = 1 /\ Len(Split(source_text)) = 1

TheWord == Split(source_text)[1]

HoldsExactly(ps) == {pairs[j] : j \in Occupied} = ps /\ Cardinality(Occupied) = Cardinality(ps)

C12_SingleWordAnyWord ==
    SingleWord =>
        /\ BuildReturned
              => HoldsExactly({<<NONWORD, <<TheWord>>>>, <<TheWord, <<NONWORD>>>>})
        /\ (GenerateReturned /\ gen_n = 1 /\ num_words >= 1)
              => result = <<TheWord>>

(***************************************************************************)
(* C12, amended: the above holds for every single word w other than the    *)
(* sentinel "@".  For the text "@" the table returned has the one key "@", *)
(* holding <<"@", "@">>, and generate_text returns no word.                *)
(***************************************************************************)
C12_SingleWordNotSentinel ==
    SingleWord =>
        /\ BuildReturned
              => IF TheWord # NONWORD
                 THEN /\ HoldsExactly({<<NONWORD, <<TheWord>>>>,
                                       <<TheWord, <<NONWORD>>>>})
                      /\ Cardinality(Occupied) = 2
                 ELSE HoldsExactly({<<NONWORD, <<NONWORD, NONWORD>>>>})
        /\ (GenerateReturned /\ gen_n = 1 /\ num_words >= 1)
              => result = IF TheWord # NONWORD THEN <<TheWord>> ELSE <<>>

\* the walk over a one-word text was asked for more than one word and has
\* returned that word
C12_Witness ==
    /\ GenerateReturned
    /\ SingleWord
    /\ gen_n = 1
    /\ TheWord # NONWORD
    /\ num_words >= 2
    /\ result = <<TheWord>>
    /\ Cardinality(Occupied) = 2

\* the walk over the text "@" has returned
C12_WitnessSentinelWord ==
    /\ GenerateReturned
    /\ SingleWord
    /\ gen_n = 1
    /\ TheWord = NONWORD
    /\ num_words >= 1
    /\ result = <<>>

(***************************************************************************)
(* C13: when a valid run is over, standard output holds the L words that   *)
(* generate_text returned as ceil(L / 10) lines of space-joined words:     *)
(* every line but the last has exactly 10 words, the last has 1 to 10, the *)
(* words of the lines in order are the returned words, and L = 0 prints    *)
(* no line.                                                                *)
(***************************************************************************)
RunPrinted == pc = "done"

\* the words of the lines ls from line k on, in order
RECURSIVE WordsOfLines(_, _)
WordsOfLines(ls, k) ==
    IF k > Len(ls) THEN <<>>
    ELSE Split(ls[k].text) \o WordsOfLines(ls, k + 1)

C13_OutputInLinesOfTen ==
    RunPrinted =>
        LET L == Len(result)
            lines == Len(stdout)
        IN  /\ lines = (L + LINE_WORDS - 1) \div LINE_WORDS
            /\ \A k \in 1..lines :
                  /\ stdout[k].msg = ""
                  /\ k < lines => Len(Split(stdout[k].text)) = LINE_WORDS
                  /\ k = lines =>
                        Len(Split(stdout[k].text)) \in 1..LINE_WORDS
            /\ WordsOfLines(stdout, 1) = result
            /\ L = 0 => stdout = <<>>

\* 21 words were printed as two full lines and a line of one word
C13_Witness ==
    /\ RunPrinted
    /\ Len(result) = 2 * LINE_WORDS + 1
    /\ Len(stdout) = 3
    /\ Len(Split(stdout[3].text)) = 1

\* a run that generated no word has printed nothing
C13_WitnessNoWords ==
    /\ RunPrinted
    /\ result = <<>>
    /\ stdout = <<>>

(***************************************************************************)
(* C14, as stated: build_table terminates exactly when table_size is at    *)
(* least the number of distinct prefixes of the extended word sequence;    *)
(* with table_size equal to that number it returns with every slot         *)
(* occupied, and with any smaller table_size it probes forever in put and  *)
(* no error is raised.                                                     *)
(***************************************************************************)
DistinctPrefixes == Cardinality({WindowAt(p) : p \in 0..Len(Split(source_text))})

BuildStarted == pc = "build_table"

\* a put called by build_table is probing
BuildProbing == pc = "put_loop" /\ stack # <<>> /\ Head(stack) = "build_loop"

\* build_table was left by an exception
BuildCrashed == pc = "crashed" /\ words # <<>>

BuildReturnsOnlyWithRoom ==
    BuildReturned =>
        /\ table_size >= DistinctPrefixes
        /\ table_size = DistinctPrefixes => ~HasEmptySlot

BuildReturnsWithRoom ==
    (BuildStarted /\ table_size >= DistinctPrefixes) ~> BuildReturned

C14_BuildTerminatesIffRoom ==
    /\ []BuildReturnsOnlyWithRoom
    /\ BuildReturnsWithRoom
    /\ [](table_size < DistinctPrefixes => ~BuildCrashed)
    /\ (BuildStarted /\ table_size < DistinctPrefixes) ~> []BuildProbing

(***************************************************************************)
(* C14, amended: the above holds with "smaller" read as "smaller but at    *)
(* least 1".  With table_size <= 0 build_table does not probe at all: its  *)
(* first put raises (ZeroDivisionError for 0, IndexError below 0), and     *)
(* these are the only runs of build_table that end in an exception.        *)
(***************************************************************************)
C14_BuildTerminatesIffRoomOrFails ==
    /\ []BuildReturnsOnlyWithRoom
    /\ BuildReturnsWithRoom
    /\ [](BuildCrashed => (table_size <= 0 /\ puts = <<>>))
    /\ (BuildStarted /\ table_size >= 1 /\ table_size < DistinctPrefixes)
          ~> []BuildProbing
    /\ (BuildStarted /\ table_size <= 0) ~> BuildCrashed

\* build_table has returned a table without a free slot
C14_Witness ==
    /\ BuildReturned
    /\ table_size = DistinctPrefixes
    /\ DistinctPrefixes = MaxCap
    /\ ~HasEmptySlot

\* build_table is probing a full table for a prefix that is not in it
C14_WitnessNoRoom ==
    /\ BuildProbing
    /\ TableFull
    /\ key \notin KeysIn
    /\ table_size >= 2
    /\ table_size < DistinctPrefixes

(***************************************************************************)
(* C15: no step of generate_text, of get or of __contains__ changes a slot *)
(* of the table or its size, and when generate_text returns the table      *)
(* still holds what build_table stored in it.                              *)
(***************************************************************************)
InGenerate == pc \in {"generate_text", "gen_loop", "gen_select"}

InGet == pc \in {"get", "get_loop"}

InContains == pc \in {"contains", "contains_loop"}

C15_LookupsChangeNoSlot ==
    /\ [][(InGenerate \/ InGet \/ InContains)
             => (pairs' = pairs /\ size' = size)]_vars
    /\ [](GenerateReturned =>
             /\ KeysIn = {WindowAt(p) : p \in 0..Len(Split(source_text))}
             /\ \A j \in Occupied : pairs[j][2] = FollowersFrom(pairs[j][1], 0))

\* a walk of two words over a table with a displaced key has returned
C15_Witness ==
    /\ GenerateReturned
    /\ Len(result) >= 2
    /\ \E j \in Occupied : Hash(pairs[j][1], size) # j - 1

\* a contains has returned on a table that holds a key
C15_WitnessContains ==
    /\ pc = "ht_idle"
    /\ found
    /\ Occupied # {}

(***************************************************************************)
(* C16: a put that returns changes exactly one slot, either by appending   *)
(* its value at the end of the values of the slot that holds its key or by *)
(* turning an empty slot into (key, [value]); no other step of put changes *)
(* a slot; and in every step an occupied slot stays occupied, keeps its    *)
(* key, and its values only grow at their end.                             *)
(***************************************************************************)
\* slot j is the only slot the step changes
OnlySlotChanged(j) ==
    /\ Len(pairs') = Len(pairs)
    /\ pairs'[j] # pairs[j]
    /\ \A m \in 1..Len(pairs) : m # j => pairs'[m] = pairs[m]

C16_PutChangesOneSlot ==
    [][/\ PutReturns
          => \E j \in 1..Len(pairs) :
                /\ OnlySlotChanged(j)
                /\ IF j \in Occupied
                   THEN /\ pairs[j][1] = key
                        /\ pairs'[j] = <<key, Append(pairs[j][2], value)>>
                   ELSE pairs'[j] = <<key, <<value>>>>
       /\ (InPut /\ ~PutReturns) => pairs' = pairs
       /\ \A j \in Occupied :
             /\ Len(pairs') = Len(pairs)
             /\ Len(pairs'[j]) # 0
             /\ pairs'[j][1] = pairs[j][1]
             /\ Len(pairs'[j][2]) >= Len(pairs[j][2])
             /\ SubSeq(pairs'[j][2], 1, Len(pairs[j][2])) = pairs[j][2]]_vars

\* the last put appended its value to the values of a stored key, next to a
\* slot that holds another key
C16_Witness ==
    /\ pc = "ht_idle"
    /\ puts # <<>>
    /\ Cardinality(Occupied) >= 2
    /\ \E j \in Occupied :
          /\ pairs[j][1] = puts[Len(puts)][1]
          /\ Len(pairs[j][2]) >= 2
          /\ pairs[j][2][Len(pairs[j][2])] = puts[Len(puts)][2]
          /\ pairs[j][2][1] # puts[Len(puts)][2]

(***************************************************************************)
(* C17: whenever the loop of generate_text tests its condition, the prefix *)
(* splits into exactly n tokens and is the space-joined last n tokens of   *)
(* n sentinels followed by the words of the result; a step that appends a  *)
(* word takes it from the suffixes looked up, drops the first token of the *)
(* prefix and appends that word to it.                                     *)
(***************************************************************************)
AtLoopTest == pc = "gen_loop"

WalkAppends == pc = "gen_select" /\ pc' = "gen_loop"

PrefixOfResult ==
    AtLoopTest =>
        /\ Len(Split(prefix)) = gen_n
        /\ Split(prefix) = LastTokens(Rep(NONWORD, gen_n) \o result, gen_n)
        /\ prefix = Join(Split(prefix))

C17_PrefixIsLastTokens ==
    /\ []PrefixOfResult
    /\ [][WalkAppends
             => \E k \in 1..Len(got[1]) :
                   /\ result' = Append(result, got[1][k])
                   /\ Split(prefix') = Tail(Split(prefix)) \o <<got[1][k]>>]_vars

\* a walk with prefixes of two tokens has appended its first word
C17_Witness ==
    /\ AtLoopTest
    /\ gen_n = 2
    /\ Len(result) = 1
    /\ prefix = Join(<<NONWORD, result[1]>>)

(***************************************************************************)
(* C18: in every reachable table, all slots of the probe sequence hash(k), *)
(* hash(k) - 1, ... (mod size) from the hash of a stored key k down to the *)
(* slot that holds k are occupied; hence a get of a stored key never       *)
(* returns None and a put of a stored key never takes an empty slot.       *)
(***************************************************************************)
\* number of probe steps from the hash of the key in slot j to slot j
Displacement(j) == (Hash(pairs[j][1], size) - (j - 1)) % size

\* the slot e probe steps after the hash of the key in slot j
ProbeSlot(j, e) == ((Hash(pairs[j][1], size) - e) % size) + 1

ChainUnbroken ==
    size >= 1 =>
        \A j \in Occupied :
            \A e \in 0..Displacement(j) : ProbeSlot(j, e) \in Occupied

C18_ProbeChainUnbroken ==
    /\ []ChainUnbroken
    /\ [][/\ (GetReturns /\ key \in KeysIn) => got' # None
          /\ (PutReturns /\ key \in KeysIn) => Occupied' = Occupied]_vars

\* a get has found a key two probe steps away from its hash slot
C18_Witness ==
    /\ pc = "ht_idle"
    /\ size = 3
    /\ \E j \in Occupied :
          /\ Displacement(j) = 2
          /\ key = pairs[j][1]
          /\ got = <<pairs[j][2]>>

(***************************************************************************)
(* C19: when generate_text runs with the n of build_table on the table     *)
(* build_table returned, the prefix is a key of the table at every test of *)
(* the loop condition, no get of the walk returns None, the walk is never  *)
(* left through the "not found" break, and a result shorter than num_words *)
(* was ended by the sentinel.                                              *)
(***************************************************************************)
SameN == gen_n = n

C19_WalkNeverMisses ==
    SameN =>
        /\ AtLoopTest => prefix \in KeysIn
        /\ pc = "gen_select" => got # None
        /\ term # "no_match"
        /\ (GenerateReturned /\ Len(result) < num_words) => term = "sentinel"

\* a walk with prefixes of two tokens found both prefixes it looked up and
\* was ended by the sentinel
C19_Witness ==
    /\ GenerateReturned
    /\ SameN
    /\ n = 2
    /\ Len(result) = 1
    /\ num_words > 1
    /\ term = "sentinel"

(***************************************************************************)
(* C20: when generate_text runs with the n of build_table, every suffix it *)
(* selects is one of the values stored for the current prefix; so every    *)
(* n + 1 consecutive tokens of n sentinels followed by the result are      *)
(* n + 1 consecutive tokens of the extended word sequence of the source,   *)
(* and no word of the result is the sentinel.                              *)
(***************************************************************************)
Elements(sq) == {sq[k] : k \in 1..Len(sq)}

\* the values stored under the key k
ValuesOf(k) == UNION {Elements(pairs[j][2]) : j \in {m \in Occupied : pairs[m][1] = k}}

\* the windows of w consecutive tokens of ws
Windows(ws, w) == {SubSeq(ws, k, k + w - 1) : k \in 1..(Len(ws) - w + 1)}

ResultFollowsSource ==
    SameN =>
        /\ Windows(Rep(NONWORD, n) \o result, n + 1) \subseteq Windows(ExtSeq, n + 1)
        /\ NONWORD \notin Elements(result)

C20_WalkFollowsSource ==
    /\ []ResultFollowsSource
    /\ [][/\ (SameN /\ WalkAppends)
             => result'[Len(result')] \in ValuesOf(prefix)
          /\ (SameN /\ pc = "gen_select" /\ term' = "sentinel")
             => NONWORD \in ValuesOf(prefix)]_vars

\* a walk has returned two different words of the source, one after the other
C20_Witness ==
    /\ GenerateReturned
    /\ SameN
    /\ Len(result) = 2
    /\ result[1] # result[2]
    /\ <<result[1], result[2]>> \in Windows(Split(source_text), 2)

=============================================================================
